---- MODULE Spec2Model ----
(***************************************************************************)
(* Model of the screen-capture pipeline of uma_assistant                   *)
(* (src/core/device/multithreaded_screen_capture.py):                      *)
(*   ScreenCaptureProducer      - the QThread that captures and pushes     *)
(*   ScreenDisplayConsumer      - the QTimer callback that pops            *)
(*   MultiThreadedScreenCapture - the controller the GUI talks to          *)
(*                                                                         *)
(* Frames are identified by their capture sequence number (1, 2, ...).     *)
(* Wall-clock time (time.time()) is the integer variable now, in seconds;  *)
(* the capture interval is kept in tenths of a second.                     *)
(***************************************************************************)
EXTENDS Integers, Sequences, FiniteSets, TLC

(***************************************************************************)
(* Bounds of the model (not program constants).                            *)
(***************************************************************************)
\* number of frames the bridge delivers in one behaviour
MaxFrames == 5
\* number of failed capture attempts in one behaviour
MaxFails == 3
\* number of unexpected exceptions reaching the outer handler of run()
MaxRaises == 1
\* value of time.time() when the pipeline is constructed (epoch seconds are
\* far larger than the cooldown; any value above the cooldown behaves alike)
EpochStart == 10
\* seconds of wall-clock time a behaviour covers
MaxElapsed == 6
\* number of one-shot screenshots in one behaviour
MaxShots == 1
\* frames the bridge delivers in one behaviour of SpecTimed
TimedFrames == 4
\* frames and failed attempts in one behaviour of SpecShot
ShotFrames == 4
ShotFails == 1
\* frames and failed attempts in one behaviour of SpecDisplay
DisplayFrames == 4
DisplayFails == 1
\* frames and failed attempts in one behaviour of SpecGui
GuiFrames == 4
GuiFails == 2
\* frames and failed attempts in one behaviour of SpecStuck
StuckFrames == 4
StuckFails == 2
\* frames and failed attempts in one behaviour of SpecQueue
QueueFrames == 6
QueueFails == 1
\* frames and failed attempts in one behaviour of SpecStop
StopFrames == 4
StopFails == 1
\* frames and failed attempts in one behaviour of SpecRaise
RaiseFrames == 4
RaiseFails == 1
\* successful start() calls in one behaviour of SpecAuto
MaxRuns == 2
\* stop() calls the caller makes per run
MaxStops == 1

(***************************************************************************)
(* Program constants.                                                      *)
(***************************************************************************)
\* config/settings.py: SCREENSHOT_INTERVAL = 1000 (milliseconds)
SCREENSHOT_INTERVAL == 1000
\* config/settings.py: ERROR_REPORT_COOLDOWN = 5 (seconds)
ERROR_REPORT_COOLDOWN == 5
\* run(): while self.frame_queue.qsize() >= 3
KeepFrames == 3
\* MultiThreadedScreenCapture.__init__: Queue(maxsize=5)
QueueMaxSize == 5
\* set_capture_interval: max(0.1, interval), in tenths of a second
MinInterval == 1
\* ScreenCaptureProducer.__init__: self.capture_interval = 1.0
DefaultInterval == 10
\* start_consuming(self, interval_ms: int = 50)
DefaultDisplayInterval == 50
\* ScreenCaptureProducer.__init__: self.last_error_time = 0
InitLastErrorTime == 0
\* stop_capture: self.producer.wait(3000), in tenths of a second
StopWait == 30
\* _capture_and_process: subprocess.run(..., timeout=10), in tenths of a
\* second
ScreencapTimeout == 100
\* get_devices: subprocess.run is given no timeout (None)
NoTimeout == 0

\* ScreenDisplayConsumer.__init__: current_display_size = QSize(450, 800)
DefaultDisplaySize == "450x800"
\* _get_display_pixmap: target_key = "640x640"
TargetKey == "640x640"
\* ScreenCaptureProducer.__init__: common_sizes, as the keys that
\* _generate_scaled_versions gives the variants of every frame
CommonSizes == {"300x533", "450x800", "600x1067", "640x640"}
\* sizes set_display_size is called with: the default, the fixed widget
\* size, and one that is not among the pre-scaled variants
DisplaySizes == {DefaultDisplaySize, TargetKey, "800x600"}

\* arguments start_capture is called with: capture_interval in tenths of a
\* second (zero and negative included), display_interval_ms
CaptureIntervals == {-10, 0, DefaultInterval, 50}
DisplayIntervals == {DefaultDisplayInterval, 100}

\* the ways one capture attempt can end (_capture_and_process)
FailureKinds == {"not_connected", "no_device", "timeout", "adb_missing",
                 "no_devices_found", "command_error", "empty_data",
                 "undecodable", "other_exception"}

VARIABLES
    queue,            \* frame_queue: sequence of frame ids, head = oldest
    running,          \* producer.running
    ppc,              \* position of the producer thread
    pending,          \* frame held by the producer between capture and put
    capture_interval, \* producer.capture_interval (tenths of a second)
    last_error_time,  \* producer.last_error_time
    capture_count,    \* producer.capture_count
    error_count,      \* producer.error_count
    timer_active,     \* consumer.consume_timer.isActive()
    timer_interval,   \* consumer.consume_timer.interval() (ms)
    display_count,    \* consumer.display_count
    mpc,              \* position of the interface thread
    now,              \* time.time()
    frames_captured,  \* history: number of frames the bridge has delivered
    pushes_since_pop, \* history: puts completed since the last consumer pop
    puts_done,        \* history: frames put into the queue
    evictions,        \* history: frames the producer took out of the queue
    loops,            \* history: executions of run() that are alive
    retained,         \* history: how many frames at the head of the queue
                      \* were queued when stop_capture last stopped the
                      \* pipeline
    stop_returned,    \* history: stop_capture returned, no start_capture since
    failed_attempts,  \* history: failed capture attempts of the producer
    raised,           \* history: exceptions that reached the outer handler
    first_fail_time,  \* history: time of the first failed capture attempt
    err_events,       \* history: times of the forwarded capture_error events
    shots,            \* history: one-shot captures begun
    shot_result,      \* history: result of the last save_screenshot call
    shot_events,      \* history: events the last save_screenshot emitted
    shot_began_at,    \* history: the producer's position when it began
    current_display_size, \* consumer.current_display_size, as "WxH"
    last_display,     \* history: size of the last display_update pixmap
    last_displayed,   \* history: frame id of the last display_update
    empty_tick,       \* history: the last consumer tick found the queue empty
    last_status,      \* history: text of the last status_changed event
    status_flip,      \* history: flips at every status_changed event
    listeners,        \* the interface has connected its slots to the signals
    gui_queue,        \* error_occurred events queued for the interface thread
    device_status,    \* the control panel's device status indicator
    missing_reported, \* history: an error was forwarded with the bridge missing
    bridge_fault,     \* environment: what is wrong with the adb executable
    auto_state,       \* BaseAutomation.state
    auto_running,     \* BaseAutomation.running
    auto_paused,      \* BaseAutomation.paused
    lpc,              \* position of the thread inside BaseAutomation.run_loop
    cleanup_calls,    \* history: cleanup() calls since the last start()
    auto_runs,        \* history: successful start() calls
    ext_stops,        \* history: stop() calls of the caller since that start()
    last_call,        \* history: the caller's last pause/resume and the state
                      \* it was called in
    auto_config,      \* BaseAutomation.config, as the set of its keys
    start_returned,   \* history: what the last start() call returned
    setup_called      \* history: the last start() call invoked setup()

vars == << queue, running, ppc, pending, capture_interval, last_error_time,
           capture_count, error_count, timer_active, timer_interval,
           display_count, mpc, now, frames_captured, pushes_since_pop,
           puts_done, evictions, loops, retained,
           stop_returned, failed_attempts, raised, first_fail_time,
           err_events, shots, shot_result, shot_events, shot_began_at,
           current_display_size, last_display, last_displayed, empty_tick,
           last_status,
           status_flip, listeners, gui_queue, device_status,
           missing_reported, bridge_fault, auto_state, auto_running,
           auto_paused, lpc, cleanup_calls, auto_runs, ext_stops,
           last_call, auto_config, start_returned, setup_called >>

\* the producer's own fields and the queue
producerVars == << queue, running, ppc, pending, capture_interval,
                   last_error_time, capture_count, error_count >>
consumerVars == << timer_active, timer_interval, display_count >>
queueHist == << puts_done, evictions >>
threadHist == << loops >>
producerHist == << frames_captured, pushes_since_pop, queueHist, threadHist,
                   retained,
                   failed_attempts, raised,
                   first_fail_time, err_events >>
shotVars == << shots, shot_result, shot_events, shot_began_at >>
displayVars == << current_display_size, last_display, last_displayed,
                  empty_tick >>
statusVars == << last_status, status_flip >>
guiVars == << listeners, gui_queue, device_status, missing_reported >>
startHist == << auto_config, start_returned, setup_called >>
autoVars == << auto_state, auto_running, auto_paused, lpc, cleanup_calls,
               auto_runs, ext_stops, last_call, startHist >>
\* everything of the capture pipeline and the interface
pipelineVars == << producerVars, consumerVars, mpc, now, producerHist,
                   stop_returned, shotVars, displayVars, statusVars, guiVars,
                   bridge_fault >>
\* what the steps of the producer thread never touch
otherVars == << displayVars, statusVars, guiVars, bridge_fault, autoVars >>

\* QThread.isRunning(): true from start() until run() has returned and the
\* thread has finished
isRunning == ppc # "idle"

Max(a, b) == IF a >= b THEN a ELSE b

\* a pixmap, as the size it was scaled to and whether it is one of the
\* frame's pre-scaled variants
Pixmap(size, prescaled) == [size |-> size, prescaled |-> prescaled]
NoPixmap == Pixmap("none", FALSE)

(***************************************************************************)
(* State after MultiThreadedScreenCapture.__init__                         *)
(***************************************************************************)
Init ==
    /\ queue = << >>
    /\ running = FALSE
    /\ ppc = "idle"
    /\ pending = 0
    /\ capture_interval = DefaultInterval
    /\ last_error_time = InitLastErrorTime
    /\ capture_count = 0
    /\ error_count = 0
    /\ timer_active = FALSE
    /\ timer_interval = 0
    /\ display_count = 0
    /\ mpc = "idle"
    /\ now = EpochStart
    /\ frames_captured = 0
    /\ pushes_since_pop = 0
    /\ puts_done = 0
    /\ evictions = 0
    /\ loops = 0
    /\ retained = 0
    /\ stop_returned = FALSE
    /\ failed_attempts = 0
    /\ raised = 0
    /\ first_fail_time = 0
    /\ err_events = << >>
    /\ shots = 0
    /\ shot_result = "none"
    /\ shot_events = {}
    /\ shot_began_at = "none"
    /\ current_display_size = DefaultDisplaySize
    /\ last_display = NoPixmap
    /\ last_displayed = 0
    /\ empty_tick = FALSE
    /\ last_status = "none"
    /\ status_flip = FALSE
    /\ listeners = FALSE
    /\ gui_queue = << >>
    /\ device_status = "disconnected"
    /\ missing_reported = FALSE
    /\ bridge_fault = "none"
    /\ auto_state = "STOPPED"
    /\ auto_running = FALSE
    /\ auto_paused = FALSE
    /\ lpc = "none"
    /\ cleanup_calls = 0
    /\ auto_runs = 0
    /\ ext_stops = 0
    /\ last_call = << "none", "STOPPED" >>
    /\ auto_config = {}
    /\ start_returned = "none"
    /\ setup_called = FALSE

(***************************************************************************)
(* ScreenCaptureProducer                                                   *)
(***************************************************************************)

\* variant of ShouldForward: the cooldown taken as milliseconds
ShouldForward_cooldown_ms(current_time) ==
    (current_time - last_error_time) * 1000 > ERROR_REPORT_COOLDOWN

\* _emit_error_throttled: the condition under which an error is forwarded
ShouldForward(current_time) ==
    current_time - last_error_time > ERROR_REPORT_COOLDOWN

\* variant of emit_error_throttled: last_error_time is not stamped
emit_error_throttled_no_stamp(error_msg) ==
    IF ShouldForward(now)
    THEN /\ err_events' = Append(err_events, now)
         /\ gui_queue' = IF listeners THEN Append(gui_queue, error_msg)
                                      ELSE gui_queue
         /\ last_error_time' = last_error_time
    ELSE UNCHANGED << err_events, gui_queue, last_error_time >>

\* variant of emit_error_throttled: only the first error ever is forwarded
emit_error_throttled_once(error_msg) ==
    IF last_error_time = InitLastErrorTime
    THEN /\ err_events' = Append(err_events, now)
         /\ gui_queue' = IF listeners THEN Append(gui_queue, error_msg)
                                      ELSE gui_queue
         /\ last_error_time' = now
    ELSE UNCHANGED << err_events, gui_queue, last_error_time >>

\* _emit_error_throttled(error_msg), called at time.time() = now;
\* capture_error.emit reaches the controller's error_occurred, whose
\* connected slots run later on the interface thread (queued delivery)
emit_error_throttled(error_msg) ==
    IF ShouldForward(now)
    THEN /\ err_events' = Append(err_events, now)
         /\ gui_queue' = IF listeners THEN Append(gui_queue, error_msg)
                                      ELSE gui_queue
         /\ last_error_time' = now
    ELSE UNCHANGED << err_events, gui_queue, last_error_time >>

\* the adb invocations of one producer iteration, in the order they are
\* made, each with the timeout subprocess.run is given (NoTimeout: none):
\* "devices" is adb devices -l in ADBManager.get_devices, reached through
\* is_device_connected; "screencap" is adb exec-out screencap -p
BridgeCalls ==
    << [cmd |-> "devices", timeout |-> NoTimeout],
       [cmd |-> "screencap", timeout |-> ScreencapTimeout] >>

\* the call of BridgeCalls that the environment makes hang, if any
HangingCall ==
    {i \in DOMAIN BridgeCalls : bridge_fault = "hang_" \o BridgeCalls[i].cmd}

\* the ways the bridge part of one iteration can end, given the state of
\* the adb executable. Missing: get_devices swallows FileNotFoundError and
\* returns [], so is_device_connected is False. Hanging: subprocess.run
\* raises TimeoutExpired after its timeout, and never returns without one.
BridgeOutcomes ==
    CASE bridge_fault = "none" -> {"ok", "raise"} \cup FailureKinds
      [] bridge_fault = "missing" -> {"not_connected"}
      [] OTHER ->
           IF \E i \in HangingCall : BridgeCalls[i].timeout = NoTimeout
           THEN {}
           ELSE {"timeout"}

\* variant of set_capture_interval: the interval is stored as given
set_capture_interval_unclamped(interval) ==
    capture_interval' = interval

\* set_capture_interval(interval)
set_capture_interval(interval) ==
    capture_interval' = Max(MinInterval, interval)

\* run(): while self.running (line 108); the loop is entered or left
run_check ==
    /\ ppc = "check"
    /\ ppc' = IF running THEN "bridge" ELSE "exiting"
    /\ UNCHANGED << queue, running, pending, capture_interval,
                    last_error_time, capture_count, error_count >>
    /\ UNCHANGED << consumerVars, mpc, now, producerHist, stop_returned,
                    shotVars >>
    /\ UNCHANGED otherVars

\* run() has returned; the QThread finishes (isRunning() becomes false)
thread_finish ==
    /\ ppc = "exiting"
    /\ ppc' = "idle"
    /\ loops' = loops - 1
    /\ UNCHANGED << queue, running, pending, capture_interval,
                    last_error_time, capture_count, error_count >>
    /\ UNCHANGED << consumerVars, mpc, now, frames_captured, pushes_since_pop,
                    queueHist, failed_attempts, raised, first_fail_time,
                    err_events, retained,
                    stop_returned, shotVars >>
    /\ UNCHANGED otherVars

\* _capture_and_process() returns a ScreenshotData (line 193)
capture_ok ==
    /\ ppc = "bridge"
    /\ "ok" \in BridgeOutcomes
    /\ frames_captured' = frames_captured + 1
    /\ pending' = frames_captured + 1
    /\ ppc' = "evict"
    /\ UNCHANGED << queue, running, capture_interval, last_error_time,
                    capture_count, error_count >>
    /\ UNCHANGED << consumerVars, mpc, now, pushes_since_pop, queueHist, failed_attempts,
                    raised, first_fail_time, err_events, stop_returned,
                    shotVars, threadHist,
                    retained >>
    /\ UNCHANGED otherVars

\* variant of capture_failed: the failed attempt is retried at once
capture_failed_no_sleep(kind) ==
    /\ ppc = "bridge"
    /\ kind \in BridgeOutcomes
    /\ emit_error_throttled(kind)
    /\ missing_reported' = (missing_reported
                              \/ (bridge_fault = "missing" /\ ShouldForward(now)))
    /\ failed_attempts' = failed_attempts + 1
    /\ first_fail_time' = IF failed_attempts = 0 THEN now ELSE first_fail_time
    /\ ppc' = "check"
    /\ UNCHANGED << queue, running, pending, capture_interval, capture_count,
                    error_count >>
    /\ UNCHANGED << consumerVars, mpc, now, frames_captured, pushes_since_pop, queueHist,
                    raised, stop_returned, shotVars, threadHist,
                    retained >>
    /\ UNCHANGED << displayVars, statusVars, listeners, device_status,
                    bridge_fault, autoVars >>

\* _capture_and_process() fails in one of the ways it handles: it calls
\* _emit_error_throttled and returns None; run() goes on to the sleep
capture_failed(kind) ==
    /\ ppc = "bridge"
    /\ kind \in BridgeOutcomes
    /\ emit_error_throttled(kind)
    /\ missing_reported' = (missing_reported
                              \/ (bridge_fault = "missing" /\ ShouldForward(now)))
    /\ failed_attempts' = failed_attempts + 1
    /\ first_fail_time' = IF failed_attempts = 0 THEN now ELSE first_fail_time
    /\ ppc' = "sleep"
    /\ UNCHANGED << queue, running, pending, capture_interval, capture_count,
                    error_count >>
    /\ UNCHANGED << consumerVars, mpc, now, frames_captured, pushes_since_pop, queueHist,
                    raised, stop_returned, shotVars, threadHist,
                    retained >>
    /\ UNCHANGED << displayVars, statusVars, listeners, device_status,
                    bridge_fault, autoVars >>

\* variant of iteration_raises: no outer handler, the exception ends run()
iteration_raises_fatal ==
    /\ ppc = "bridge"
    /\ "raise" \in BridgeOutcomes
    /\ raised' = raised + 1
    /\ ppc' = "exiting"
    /\ UNCHANGED << queue, running, pending, capture_interval,
                    last_error_time, capture_count, error_count >>
    /\ UNCHANGED << consumerVars, mpc, now, frames_captured, pushes_since_pop, queueHist,
                    failed_attempts, first_fail_time, err_events,
                    stop_returned, shotVars, threadHist,
                    retained >>
    /\ UNCHANGED otherVars

\* an exception escapes the iteration into the outer handler of run()
\* (lines 134-137): it is logged, error_count is incremented, sleep(1.0)
iteration_raises ==
    /\ ppc = "bridge"
    /\ "raise" \in BridgeOutcomes
    /\ raised' = raised + 1
    /\ error_count' = error_count + 1
    /\ ppc' = "backoff"
    /\ UNCHANGED << queue, running, pending, capture_interval,
                    last_error_time, capture_count >>
    /\ UNCHANGED << consumerVars, mpc, now, frames_captured, pushes_since_pop, queueHist,
                    failed_attempts, first_fail_time, err_events,
                    stop_returned, shotVars, threadHist,
                    retained >>
    /\ UNCHANGED otherVars

\* variant of NeedsEvict: the comparison off by one
NeedsEvict_off_by_one == Len(queue) > KeepFrames

\* run(): self.frame_queue.qsize() >= 3 (line 117)
NeedsEvict == Len(queue) >= KeepFrames

\* variant of evict_check: the evict loop is skipped
evict_check_never ==
    /\ ppc = "evict"
    /\ ppc' = "put"
    /\ UNCHANGED << queue, running, pending, capture_interval,
                    last_error_time, capture_count, error_count >>
    /\ UNCHANGED << consumerVars, mpc, now, producerHist, stop_returned,
                    shotVars >>
    /\ UNCHANGED otherVars

\* run(): while self.frame_queue.qsize() >= 3 (line 117)
evict_check ==
    /\ ppc = "evict"
    /\ ppc' = IF NeedsEvict THEN "get" ELSE "put"
    /\ UNCHANGED << queue, running, pending, capture_interval,
                    last_error_time, capture_count, error_count >>
    /\ UNCHANGED << consumerVars, mpc, now, producerHist, stop_returned,
                    shotVars >>
    /\ UNCHANGED otherVars

\* variant of evict_get: the newest frame is dropped instead of the oldest
evict_get_newest ==
    /\ ppc = "get"
    /\ IF queue # << >>
       THEN /\ queue' = SubSeq(queue, 1, Len(queue) - 1)
            /\ evictions' = evictions + 1
            /\ ppc' = "evict"
       ELSE /\ queue' = queue
            /\ evictions' = evictions
            /\ ppc' = "put"
    /\ retained' = IF queue' # queue THEN Max(retained - 1, 0) ELSE retained
    /\ UNCHANGED << running, pending, capture_interval, last_error_time,
                    capture_count, error_count >>
    /\ UNCHANGED << consumerVars, mpc, now, frames_captured, pushes_since_pop,
                    puts_done, failed_attempts, raised, first_fail_time,
                    err_events, stop_returned, shotVars, threadHist >>
    /\ UNCHANGED otherVars

\* run(): self.frame_queue.get_nowait(), with except Empty: break
\* (lines 118-121)
evict_get ==
    /\ ppc = "get"
    /\ IF queue # << >>
       THEN /\ queue' = Tail(queue)
            /\ evictions' = evictions + 1
            /\ ppc' = "evict"
       ELSE /\ queue' = queue
            /\ evictions' = evictions
            /\ ppc' = "put"
    /\ retained' = IF queue' # queue THEN Max(retained - 1, 0) ELSE retained
    /\ UNCHANGED << running, pending, capture_interval, last_error_time,
                    capture_count, error_count >>
    /\ UNCHANGED << consumerVars, mpc, now, frames_captured, pushes_since_pop,
                    puts_done, failed_attempts, raised, first_fail_time,
                    err_events, stop_returned, shotVars, threadHist >>
    /\ UNCHANGED otherVars

\* run(): self.frame_queue.put(screenshot_data, timeout=0.1) (line 123); on
\* a full queue put raises Full, which the bare except swallows
queue_put ==
    /\ ppc = "put"
    /\ IF Len(queue) < QueueMaxSize
       THEN /\ queue' = Append(queue, pending)
            /\ pushes_since_pop' = pushes_since_pop + 1
            /\ puts_done' = puts_done + 1
            /\ ppc' = "count"
       ELSE /\ UNCHANGED << queue, pushes_since_pop, puts_done >>
            /\ ppc' = "sleep"
    /\ pending' = 0
    /\ evictions' = evictions
    /\ UNCHANGED << running, capture_interval, last_error_time, capture_count,
                    error_count >>
    /\ UNCHANGED << consumerVars, mpc, now, frames_captured, failed_attempts,
                    raised, first_fail_time, err_events, stop_returned,
                    shotVars, threadHist,
                    retained >>
    /\ UNCHANGED otherVars

\* run(): self.frame_ready.emit(...); self.capture_count += 1
\* (lines 124-125)
frame_counted ==
    /\ ppc = "count"
    /\ capture_count' = capture_count + 1
    /\ ppc' = "sleep"
    /\ UNCHANGED << queue, running, pending, capture_interval,
                    last_error_time, error_count >>
    /\ UNCHANGED << consumerVars, mpc, now, producerHist, stop_returned,
                    shotVars >>
    /\ UNCHANGED otherVars

\* run(): self.frame_ready.emit(...) raises (line 124), after the put; the
\* bare except of lines 127-129 swallows the exception: nothing is logged
\* or counted, capture_count += 1 is skipped, and the iteration goes on to
\* time.sleep(self.capture_interval)
inner_raises ==
    /\ ppc = "count"
    /\ ppc' = "sleep"
    /\ UNCHANGED << queue, running, pending, capture_interval,
                    last_error_time, capture_count, error_count >>
    /\ UNCHANGED << consumerVars, mpc, now, producerHist, stop_returned,
                    shotVars >>
    /\ UNCHANGED otherVars

\* run(): time.sleep(self.capture_interval) is over (line 132), or
\* time.sleep(1.0) after an exception (line 137)
sleep_over ==
    /\ ppc \in {"sleep", "backoff"}
    /\ ppc' = "check"
    /\ UNCHANGED << queue, running, pending, capture_interval,
                    last_error_time, capture_count, error_count >>
    /\ UNCHANGED << consumerVars, mpc, now, producerHist, stop_returned,
                    shotVars >>
    /\ UNCHANGED otherVars

\* self.status_changed.emit(status)
status_changed(status) ==
    /\ last_status' = status
    /\ status_flip' = ~status_flip

\* variant of thread_start: every call launches an execution of run()
thread_start_always ==
    /\ ppc' = "check"
    /\ loops' = loops + 1

\* self.start() (line 93): QThread.start() launches run() on the thread,
\* and does nothing while the thread is still running
thread_start ==
    IF isRunning
    THEN /\ ppc' = ppc
         /\ loops' = loops
    ELSE /\ ppc' = "check"
         /\ loops' = loops + 1

\* variant of producer_start_capture: no test of the running flag
producer_start_capture_unguarded ==
    /\ running' = TRUE
    /\ thread_start
    /\ status_changed("capturing")

\* ScreenCaptureProducer.start_capture (lines 89-95)
producer_start_capture ==
    IF ~running
    THEN /\ running' = TRUE
         /\ thread_start
         /\ status_changed("capturing")
    ELSE UNCHANGED << running, ppc, statusVars, threadHist >>

\* variant of producer_stop_capture: no test of the running flag
producer_stop_capture_unguarded ==
    /\ running' = FALSE
    /\ status_changed("stopped")

\* ScreenCaptureProducer.stop_capture (lines 97-102)
producer_stop_capture ==
    IF running
    THEN /\ running' = FALSE
         /\ status_changed("stopped")
    ELSE UNCHANGED << running, statusVars >>

(***************************************************************************)
(* ScreenDisplayConsumer                                                   *)
(***************************************************************************)

\* start_consuming(interval_ms): QTimer.start(msec) (re)starts the timer
start_consuming(interval_ms) ==
    /\ timer_active' = TRUE
    /\ timer_interval' = interval_ms

\* stop_consuming(): QTimer.stop()
stop_consuming ==
    /\ timer_active' = FALSE
    /\ timer_interval' = timer_interval

\* set_display_size(size) (lines 301-309, reached through the controller's
\* set_display_size, lines 452-459)
set_display_size(size) ==
    /\ mpc = "idle"
    /\ current_display_size' = size
    /\ UNCHANGED << producerVars, consumerVars, mpc, now, producerHist,
                    stop_returned, shotVars >>
    /\ UNCHANGED << last_display, last_displayed, empty_tick, statusVars,
                    guiVars, bridge_fault, autoVars >>

\* _generate_scaled_versions(pixmap) (lines 212-242): the keys of the dict
\* it returns, one "WxH" per size of self.common_sizes; the display size
\* given to set_display_size reaches the consumer only (lines 452-459)
generate_scaled_versions == CommonSizes

\* _get_display_pixmap(screenshot_data) (lines 345-377): the pre-scaled
\* variant under target_key when the frame has one, else the original scaled
\* to QSize(640, 640)
get_display_pixmap(scaled_pixmaps) ==
    IF TargetKey \in scaled_pixmaps
    THEN Pixmap(TargetKey, TRUE)
    ELSE Pixmap("640x640", FALSE)

\* variant of consume_frame: the frame is read but left in the queue
consume_frame_peek ==
    /\ mpc = "idle"
    /\ timer_active
    /\ IF queue # << >>
       THEN /\ queue' = queue
            /\ display_count' = display_count + 1
            /\ last_displayed' = Head(queue)
            /\ last_display' = get_display_pixmap(CommonSizes)
            /\ empty_tick' = FALSE
            /\ pushes_since_pop' = 0
       ELSE /\ empty_tick' = TRUE
            /\ UNCHANGED << queue, display_count, last_displayed,
                            last_display, pushes_since_pop >>
    /\ UNCHANGED queueHist
    /\ retained' = IF queue' # queue THEN Max(retained - 1, 0) ELSE retained
    /\ mpc' = mpc
    /\ UNCHANGED << running, ppc, pending, capture_interval, last_error_time,
                    capture_count, error_count >>
    /\ UNCHANGED << timer_active, timer_interval, now, frames_captured,
                    failed_attempts, raised, first_fail_time, err_events,
                    stop_returned, shotVars, threadHist >>
    /\ UNCHANGED << current_display_size, statusVars, guiVars, bridge_fault,
                    autoVars >>

\* variant of consume_frame: the newest queued frame is taken (get from the
\* tail of the queue)
consume_frame_newest ==
    /\ mpc = "idle"
    /\ timer_active
    /\ IF queue # << >>
       THEN /\ queue' = SubSeq(queue, 1, Len(queue) - 1)
            /\ display_count' = display_count + 1
            /\ last_displayed' = queue[Len(queue)]
            /\ last_display' = get_display_pixmap(CommonSizes)
            /\ empty_tick' = FALSE
            /\ pushes_since_pop' = 0
       ELSE /\ empty_tick' = TRUE
            /\ UNCHANGED << queue, display_count, last_displayed,
                            last_display, pushes_since_pop >>
    /\ UNCHANGED queueHist
    /\ retained' = IF queue' # queue THEN Max(retained - 1, 0) ELSE retained
    /\ mpc' = mpc
    /\ UNCHANGED << running, ppc, pending, capture_interval, last_error_time,
                    capture_count, error_count >>
    /\ UNCHANGED << timer_active, timer_interval, now, frames_captured,
                    failed_attempts, raised, first_fail_time, err_events,
                    stop_returned, shotVars, threadHist >>
    /\ UNCHANGED << current_display_size, statusVars, guiVars, bridge_fault,
                    autoVars >>

\* variant of consume_frame: a blocking get(), the interface thread waits on
\* an empty queue
consume_frame_blocking ==
    /\ mpc = "idle"
    /\ timer_active
    /\ IF queue # << >>
       THEN /\ queue' = Tail(queue)
            /\ display_count' = display_count + 1
            /\ last_displayed' = Head(queue)
            /\ last_display' = get_display_pixmap(CommonSizes)
            /\ empty_tick' = FALSE
            /\ pushes_since_pop' = 0
       ELSE /\ empty_tick' = TRUE
            /\ UNCHANGED << queue, display_count, last_displayed,
                            last_display, pushes_since_pop >>
    /\ UNCHANGED queueHist
    /\ retained' = IF queue' # queue THEN Max(retained - 1, 0) ELSE retained
    /\ mpc' = IF queue # << >> THEN mpc ELSE "tick_blocked"
    /\ UNCHANGED << running, ppc, pending, capture_interval, last_error_time,
                    capture_count, error_count >>
    /\ UNCHANGED << timer_active, timer_interval, now, frames_captured,
                    failed_attempts, raised, first_fail_time, err_events,
                    stop_returned, shotVars, threadHist >>
    /\ UNCHANGED << current_display_size, statusVars, guiVars, bridge_fault,
                    autoVars >>

\* _consume_frame (lines 326-343), run by the timer on the interface thread
consume_frame ==
    /\ mpc = "idle"
    /\ timer_active
    /\ IF queue # << >>
       THEN /\ queue' = Tail(queue)
            /\ display_count' = display_count + 1
            /\ last_displayed' = Head(queue)
            /\ last_display' = get_display_pixmap(CommonSizes)
            /\ empty_tick' = FALSE
            /\ pushes_since_pop' = 0
       ELSE /\ empty_tick' = TRUE
            /\ UNCHANGED << queue, display_count, last_displayed,
                            last_display, pushes_since_pop >>
    /\ UNCHANGED queueHist
    /\ retained' = IF queue' # queue THEN Max(retained - 1, 0) ELSE retained
    /\ mpc' = mpc
    /\ UNCHANGED << running, ppc, pending, capture_interval, last_error_time,
                    capture_count, error_count >>
    /\ UNCHANGED << timer_active, timer_interval, now, frames_captured,
                    failed_attempts, raised, first_fail_time, err_events,
                    stop_returned, shotVars, threadHist >>
    /\ UNCHANGED << current_display_size, statusVars, guiVars, bridge_fault,
                    autoVars >>

(***************************************************************************)
(* MultiThreadedScreenCapture                                              *)
(***************************************************************************)

\* variant of start_capture: the counters are reset when the pipeline starts
start_capture_reset(interval, interval_ms) ==
    /\ mpc = "idle"
    /\ set_capture_interval(interval)
    /\ producer_start_capture
    /\ start_consuming(interval_ms)
    /\ stop_returned' = FALSE
    /\ capture_count' = 0
    /\ error_count' = 0
    /\ display_count' = 0
    /\ UNCHANGED << queue, pending, last_error_time, mpc, now, shotVars >>
    /\ UNCHANGED << frames_captured, pushes_since_pop,
                    queueHist, failed_attempts, raised, first_fail_time,
                    err_events, retained >>
    /\ UNCHANGED << displayVars, guiVars, bridge_fault, autoVars >>

\* start_capture(capture_interval, display_interval_ms) (lines 428-439)
start_capture(interval, interval_ms) ==
    /\ mpc = "idle"
    /\ set_capture_interval(interval)
    /\ producer_start_capture
    /\ start_consuming(interval_ms)
    /\ stop_returned' = FALSE
    /\ UNCHANGED << queue, pending, last_error_time, capture_count,
                    error_count, display_count, mpc, now, shotVars >>
    /\ UNCHANGED << frames_captured, pushes_since_pop,
                    queueHist, failed_attempts, raised, first_fail_time,
                    err_events, retained >>
    /\ UNCHANGED << displayVars, guiVars, bridge_fault, autoVars >>

\* what stop_capture (lines 441-450) does up to the wait
stop_capture_steps ==
    /\ producer_stop_capture
    /\ stop_consuming
    /\ IF isRunning
       THEN /\ mpc' = "stop_wait"
            /\ stop_returned' = stop_returned
       ELSE /\ mpc' = "idle"
            /\ stop_returned' = TRUE
    /\ retained' = IF running THEN Len(queue) ELSE retained

\* stop_capture (lines 441-450) up to the wait: the flag is cleared, the
\* timer stopped, and the call returns at once when the thread is not running
stop_capture_call ==
    /\ mpc = "idle"
    /\ stop_capture_steps
    /\ UNCHANGED << queue, ppc, pending, capture_interval, last_error_time,
                    capture_count, error_count, display_count, now,
                    shotVars >>
    /\ UNCHANGED << frames_captured, pushes_since_pop,
                    queueHist, threadHist, failed_attempts, raised,
                    first_fail_time, err_events >>
    /\ UNCHANGED << displayVars, guiVars, bridge_fault, autoVars >>

\* cleanup (lines 590-593): self.stop_capture(), then a log line
cleanup ==
    stop_capture_call

\* stop_capture: self.producer.wait(3000) returns because the thread finished
stop_wait_finished ==
    /\ mpc = "stop_wait"
    /\ ~isRunning
    /\ mpc' = "idle"
    /\ stop_returned' = TRUE
    /\ UNCHANGED << producerVars, consumerVars, now, producerHist, shotVars >>
    /\ UNCHANGED otherVars

\* the producer is in a call that can last longer than the wait: the bridge
\* call (subprocess timeout 10 s), or a capture-interval sleep above 3 s
CanOutlastWait ==
    \/ ppc = "bridge"
    \/ ppc = "sleep" /\ capture_interval > StopWait

\* variant of stop_wait_timeout: wait() without a timeout never gives up
stop_wait_timeout_never ==
    /\ mpc = "stop_wait"
    /\ FALSE
    /\ UNCHANGED vars

\* stop_capture: self.producer.wait(3000) times out; stop_capture returns
stop_wait_timeout ==
    /\ mpc = "stop_wait"
    /\ isRunning
    /\ CanOutlastWait
    /\ mpc' = "idle"
    /\ stop_returned' = TRUE
    /\ UNCHANGED << producerVars, consumerVars, now, producerHist, shotVars >>
    /\ UNCHANGED otherVars

\* the signals MultiThreadedScreenCapture declares (lines 399-402)
ControllerSignals ==
    {"image_ready", "screenshot_saved", "error_occurred", "status_changed"}

\* save_screenshot's failure reporting, self.capture_error.emit(error_msg)
\* followed by return False (lines 514-515 and 520-521): an attribute the
\* class does not have raises AttributeError instead
report_save_failure ==
    IF "capture_error" \in ControllerSignals
    THEN /\ shot_events' = {"capture_error"}
         /\ shot_result' = "False"
    ELSE /\ shot_events' = {}
         /\ shot_result' = "raised"

\* save_screenshot (lines 477-521) enters _capture_screenshot_immediately,
\* which runs the bridge on the calling (interface) thread
save_screenshot_begin ==
    /\ mpc = "idle"
    /\ shots' = shots + 1
    /\ mpc' = "shot"
    /\ shot_result' = "none"
    /\ shot_events' = {}
    /\ shot_began_at' = ppc
    /\ UNCHANGED << producerVars, consumerVars, now, producerHist,
                    stop_returned >>
    /\ UNCHANGED otherVars

\* variant of save_screenshot_end: the screenshot is taken from the frame
\* queue instead of a capture of its own
save_screenshot_end_from_queue(captured, saved) ==
    /\ mpc = "shot"
    /\ mpc' = "idle"
    /\ IF queue # << >> /\ saved = "True"
       THEN /\ shot_events' = {"screenshot_saved"}
            /\ shot_result' = "True"
            /\ queue' = Tail(queue)
       ELSE /\ report_save_failure
            /\ queue' = queue
    /\ UNCHANGED << shots, shot_began_at >>
    /\ UNCHANGED << running, ppc, pending, capture_interval, last_error_time,
                    capture_count, error_count >>
    /\ UNCHANGED << consumerVars, now, producerHist, stop_returned >>
    /\ UNCHANGED otherVars

\* save_screenshot after the bridge call. captured: the one-shot capture
\* returned a ScreenshotData (else None, lines 530-588); saved: what
\* pixmap.save does ("True", "False" or "raise")
save_screenshot_end(captured, saved) ==
    /\ mpc = "shot"
    /\ mpc' = "idle"
    /\ IF captured /\ saved = "True"
       THEN /\ shot_events' = {"screenshot_saved"}
            /\ shot_result' = "True"
       ELSE \* None.pixmap or save raising lands in except Exception (517);
            \* save returning False reaches line 514, whose AttributeError
            \* lands in the same handler
            report_save_failure
    /\ UNCHANGED << shots, shot_began_at >>
    /\ UNCHANGED << producerVars, consumerVars, now, producerHist,
                    stop_returned >>
    /\ UNCHANGED otherVars

(***************************************************************************)
(* The interface: MainWindow and ScreenDisplayWidget                       *)
(***************************************************************************)

\* which of the texts the interface looks for an error message contains:
\* "ADB", "ADB_not_installed" (the text "ADB 未安裝") and
\* "no_device_detected" (the text "未檢測到設備"); the messages are those of
\* _capture_and_process (lines 149-210)
Keywords(error_message) ==
    CASE error_message = "timeout" -> {"ADB"}
      [] error_message = "adb_missing" -> {"ADB", "ADB_not_installed"}
      [] error_message = "no_devices_found" -> {"no_device_detected"}
      [] error_message = "command_error" -> {"ADB"}
      [] OTHER -> {}

\* ScreenDisplayWidget.setup_screen_capture and MainWindow.setup_connections
\* connect the slots to error_occurred
setup_connections ==
    /\ ~listeners
    /\ listeners' = TRUE
    /\ UNCHANGED << producerVars, consumerVars, mpc, now, producerHist,
                    stop_returned, shotVars >>
    /\ UNCHANGED << displayVars, statusVars, gui_queue, device_status,
                    missing_reported, bridge_fault, autoVars >>

\* MainWindow.try_initial_connection; connected is what connect_device
\* returns. With the adb executable missing, subprocess.run in
\* connect_device raises FileNotFoundError, which nothing catches: the slot
\* ends without any effect.
try_initial_connection(connected) ==
    /\ mpc = "idle"
    /\ listeners
    /\ IF bridge_fault = "missing"
       THEN UNCHANGED << device_status, capture_interval, running, ppc,
                         statusVars, timer_active, timer_interval,
                         stop_returned, threadHist >>
       ELSE IF connected
            THEN /\ device_status' = "connected"
                 /\ set_capture_interval(SCREENSHOT_INTERVAL \div 100)
                 /\ producer_start_capture
                 /\ start_consuming(DefaultDisplayInterval)
                 /\ stop_returned' = FALSE
            ELSE /\ device_status' = "disconnected"
                 /\ UNCHANGED << capture_interval, running, ppc, statusVars,
                                 timer_active, timer_interval, stop_returned,
                                 threadHist >>
    /\ UNCHANGED << queue, pending, last_error_time, capture_count,
                    error_count, display_count, mpc, now, shotVars >>
    /\ UNCHANGED << frames_captured, pushes_since_pop,
                    queueHist, failed_attempts, raised, first_fail_time,
                    err_events, retained >>
    /\ UNCHANGED << displayVars, listeners, gui_queue, missing_reported,
                    bridge_fault, autoVars >>

\* ScreenDisplayWidget.handle_capture_error: on the two severe messages the
\* capture is stopped
handle_capture_error(error_message) ==
    IF Keywords(error_message)
           \cap {"ADB_not_installed", "no_device_detected"} # {}
    THEN stop_capture_steps
    ELSE UNCHANGED << running, statusVars, timer_active, timer_interval, mpc,
                      stop_returned, retained >>

\* MainWindow.on_capture_error (lines 227-233)
on_capture_error(error_message) ==
    IF Keywords(error_message) \cap {"no_device_detected", "ADB"} # {}
    THEN device_status' = "disconnected"
    ELSE device_status' = device_status

\* the interface thread delivers a queued error_occurred event to its two
\* slots, in the order they were connected
deliver_capture_error ==
    /\ mpc = "idle"
    /\ gui_queue # << >>
    /\ gui_queue' = Tail(gui_queue)
    /\ handle_capture_error(Head(gui_queue))
    /\ on_capture_error(Head(gui_queue))
    /\ UNCHANGED << queue, ppc, pending, capture_interval, last_error_time,
                    capture_count, error_count, display_count, now,
                    shotVars >>
    /\ UNCHANGED << frames_captured, pushes_since_pop,
                    queueHist, threadHist, failed_attempts, raised,
                    first_fail_time, err_events >>
    /\ UNCHANGED << displayVars, listeners, missing_reported, bridge_fault,
                    autoVars >>

\* the environment: the adb executable disappears, between two iterations
\* of the producer, and stays away
adb_removed ==
    /\ bridge_fault = "none"
    /\ ppc # "bridge"
    /\ bridge_fault' = "missing"
    /\ UNCHANGED << producerVars, consumerVars, mpc, now, producerHist,
                    stop_returned, shotVars >>
    /\ UNCHANGED << displayVars, statusVars, guiVars, autoVars >>

\* the environment: from now on the adb call BridgeCalls[i] hangs
bridge_hangs(i) ==
    /\ bridge_fault = "none"
    /\ bridge_fault' = "hang_" \o BridgeCalls[i].cmd
    /\ UNCHANGED << producerVars, consumerVars, mpc, now, producerHist,
                    stop_returned, shotVars >>
    /\ UNCHANGED << displayVars, statusVars, guiVars, autoVars >>

(***************************************************************************)
(* BaseAutomation (src/core/automation/base_automation.py): a caller       *)
(* thread runs start, stop, pause and resume; run_loop runs on a thread of *)
(* its own, launched after a successful start. lpc is that thread's        *)
(* position: "none" (never launched), "due" (to be launched), "while",     *)
(* "paused", "try", "step", "final", "stopping", "done".                   *)
(***************************************************************************)

AutomationState == {"STOPPED", "RUNNING", "PAUSED", "ERROR"}

\* the config arguments of start: None or an empty dict, and two dicts, each
\* taken as the set of its keys
Configs == {{}, {"speed"}, {"mode"}}

\* variant of start: no test of the state, setup runs on every call
start_unguarded(config, setup_ok) ==
    /\ auto_config' = auto_config \cup config
    /\ setup_called' = TRUE
    /\ IF ~setup_ok
       THEN /\ auto_state' = "ERROR"
            /\ start_returned' = "False"
            /\ UNCHANGED << auto_running, auto_paused, lpc,
                            cleanup_calls, auto_runs, ext_stops >>
       ELSE /\ auto_running' = TRUE
            /\ auto_paused' = FALSE
            /\ auto_state' = "RUNNING"
            /\ start_returned' = "True"
            /\ lpc' = IF lpc \in {"none", "done"} THEN "due" ELSE lpc
            /\ cleanup_calls' = 0
            /\ ext_stops' = 0
            /\ auto_runs' = auto_runs + 1
    /\ last_call' = last_call
    /\ UNCHANGED pipelineVars

\* start(config) (lines 69-95), called at any time; setup_ok is what
\* self.setup returns. A run_loop thread is launched after a successful
\* start unless one is still alive.
start(config, setup_ok) ==
    /\ IF auto_state = "RUNNING"
       THEN /\ start_returned' = "False"
            /\ setup_called' = FALSE
            /\ UNCHANGED << auto_state, auto_running, auto_paused, lpc,
                            cleanup_calls, auto_runs, ext_stops,
                            auto_config >>
       ELSE /\ auto_config' = auto_config \cup config
            /\ setup_called' = TRUE
            /\ IF ~setup_ok
               THEN /\ auto_state' = "ERROR"
                    /\ start_returned' = "False"
                    /\ UNCHANGED << auto_running, auto_paused, lpc,
                                    cleanup_calls, auto_runs, ext_stops >>
               ELSE /\ auto_running' = TRUE
                    /\ auto_paused' = FALSE
                    /\ auto_state' = "RUNNING"
                    /\ start_returned' = "True"
                    /\ lpc' = IF lpc \in {"none", "done"} THEN "due"
                                                           ELSE lpc
                    /\ cleanup_calls' = 0
                    /\ ext_stops' = 0
                    /\ auto_runs' = auto_runs + 1
    /\ last_call' = last_call
    /\ UNCHANGED pipelineVars

\* what stop() (lines 97-103) does
stop_steps ==
    /\ auto_running' = FALSE
    /\ auto_paused' = FALSE
    /\ auto_state' = "STOPPED"
    /\ cleanup_calls' = cleanup_calls + 1

\* stop() called by the caller
stop ==
    /\ stop_steps
    /\ ext_stops' = ext_stops + 1
    /\ UNCHANGED << lpc, auto_runs, last_call >>
    /\ UNCHANGED startHist
    /\ UNCHANGED pipelineVars

\* variant of pause: no test of the state
pause_unguarded ==
    /\ auto_paused' = TRUE
    /\ auto_state' = "PAUSED"
    /\ last_call' = << "pause", auto_state >>
    /\ UNCHANGED << auto_running, lpc, cleanup_calls, auto_runs, ext_stops >>
    /\ UNCHANGED startHist
    /\ UNCHANGED pipelineVars

\* pause() (lines 105-110)
pause ==
    /\ IF auto_state = "RUNNING"
       THEN /\ auto_paused' = TRUE
            /\ auto_state' = "PAUSED"
       ELSE UNCHANGED << auto_paused, auto_state >>
    /\ last_call' = << "pause", auto_state >>
    /\ UNCHANGED << auto_running, lpc, cleanup_calls, auto_runs, ext_stops >>
    /\ UNCHANGED startHist
    /\ UNCHANGED pipelineVars

\* resume() (lines 112-117)
resume ==
    /\ IF auto_state = "PAUSED"
       THEN /\ auto_paused' = FALSE
            /\ auto_state' = "RUNNING"
       ELSE UNCHANGED << auto_paused, auto_state >>
    /\ last_call' = << "resume", auto_state >>
    /\ UNCHANGED << auto_running, lpc, cleanup_calls, auto_runs, ext_stops >>
    /\ UNCHANGED startHist
    /\ UNCHANGED pipelineVars

\* run_loop() is entered on its thread
run_loop_begin ==
    /\ lpc = "due"
    /\ lpc' = "while"
    /\ UNCHANGED << auto_state, auto_running, auto_paused, cleanup_calls,
                    auto_runs, ext_stops, last_call >>
    /\ UNCHANGED startHist
    /\ UNCHANGED pipelineVars

\* run_loop: while self.running (line 121)
loop_while ==
    /\ lpc = "while"
    /\ lpc' = IF auto_running THEN "paused" ELSE "final"
    /\ UNCHANGED << auto_state, auto_running, auto_paused, cleanup_calls,
                    auto_runs, ext_stops, last_call >>
    /\ UNCHANGED startHist
    /\ UNCHANGED pipelineVars

\* run_loop: if self.paused: sleep(0.1); continue (lines 122-124)
loop_paused ==
    /\ lpc = "paused"
    /\ lpc' = IF auto_paused THEN "while" ELSE "try"
    /\ UNCHANGED << auto_state, auto_running, auto_paused, cleanup_calls,
                    auto_runs, ext_stops, last_call >>
    /\ UNCHANGED startHist
    /\ UNCHANGED pipelineVars

\* run_loop: self.execute_step() is invoked (line 127)
loop_invoke ==
    /\ lpc = "try"
    /\ lpc' = "step"
    /\ UNCHANGED << auto_state, auto_running, auto_paused, cleanup_calls,
                    auto_runs, ext_stops, last_call >>
    /\ UNCHANGED startHist
    /\ UNCHANGED pipelineVars

\* run_loop: execute_step() ends (lines 126-138); result is "True", "False"
\* or "raise". On True the loop sleeps and goes round; otherwise the state
\* becomes ERROR and the loop is left.
loop_step(result) ==
    /\ lpc = "step"
    /\ IF result = "True"
       THEN /\ lpc' = "while"
            /\ auto_state' = auto_state
       ELSE /\ lpc' = "final"
            /\ auto_state' = "ERROR"
    /\ UNCHANGED << auto_running, auto_paused, cleanup_calls, auto_runs,
                    ext_stops, last_call >>
    /\ UNCHANGED startHist
    /\ UNCHANGED pipelineVars

\* run_loop: if self.state != AutomationState.STOPPED (line 140)
loop_final ==
    /\ lpc = "final"
    /\ lpc' = IF auto_state # "STOPPED" THEN "stopping" ELSE "done"
    /\ UNCHANGED << auto_state, auto_running, auto_paused, cleanup_calls,
                    auto_runs, ext_stops, last_call >>
    /\ UNCHANGED startHist
    /\ UNCHANGED pipelineVars

\* run_loop: self.stop() (line 141)
loop_stop ==
    /\ lpc = "stopping"
    /\ stop_steps
    /\ lpc' = "done"
    /\ UNCHANGED << auto_runs, ext_stops, last_call >>
    /\ UNCHANGED startHist
    /\ UNCHANGED pipelineVars

\* wall-clock time advances by one second
Tick ==
    /\ now' = now + 1
    /\ UNCHANGED << producerVars, consumerVars, mpc, producerHist,
                    stop_returned, shotVars >>
    /\ UNCHANGED otherVars

\* the steps of the producer thread, for at most maxFrames delivered frames,
\* maxFails failed attempts and maxRaises escaping exceptions
Producer(maxFrames, maxFails, maxRaises) ==
    \/ run_check
    \/ thread_finish
    \/ frames_captured < maxFrames /\ capture_ok
    \/ failed_attempts < maxFails /\ \E kind \in FailureKinds : capture_failed(kind)
    \/ raised < maxRaises /\ iteration_raises
    \/ evict_check
    \/ evict_get
    \/ queue_put
    \/ frame_counted
    \/ sleep_over

\* any step of the producer thread
ProducerStep ==
    \/ run_check
    \/ thread_finish
    \/ capture_ok
    \/ \E kind \in FailureKinds : capture_failed(kind)
    \/ iteration_raises
    \/ evict_check
    \/ evict_get
    \/ queue_put
    \/ frame_counted
    \/ sleep_over

\* the calls of the interface thread that start, stop and tick the pipeline
\* with start_capture's arguments drawn from intervals and intervals_ms
Lifecycle(intervals, intervals_ms) ==
    \/ consume_frame
    \/ \E ci \in intervals, di \in intervals_ms : start_capture(ci, di)
    \/ stop_capture_call
    \/ cleanup
    \/ stop_wait_finished
    \/ stop_wait_timeout

\* the one-shot screenshot of the interface thread
OneShot(maxShots) ==
    \/ shots < maxShots /\ save_screenshot_begin
    \/ \E captured \in BOOLEAN, saved \in {"True", "False", "raise"} :
          save_screenshot_end(captured, saved)

(***************************************************************************)
(* Spec: the pipeline's lifecycle and queue, within one second of wall     *)
(* clock (the clock is read by the error throttle only).                   *)
(***************************************************************************)
Next ==
    \/ Producer(MaxFrames, MaxFails, MaxRaises)
    \/ Lifecycle(CaptureIntervals, DisplayIntervals)

Spec == Init /\ [][Next]_vars

(***************************************************************************)
(* SpecTimed: the producer's error handling against the wall clock.        *)
(***************************************************************************)
NextTimed ==
    \/ Producer(TimedFrames, MaxFails, MaxRaises)
    \/ Lifecycle({DefaultInterval}, {DefaultDisplayInterval})
    \/ now < EpochStart + MaxElapsed /\ Tick

SpecTimed == Init /\ [][NextTimed]_vars

(***************************************************************************)
(* SpecShot: the one-shot screenshot next to the running pipeline.         *)
(***************************************************************************)
NextShot ==
    \/ Producer(ShotFrames, ShotFails, MaxRaises)
    \/ Lifecycle({DefaultInterval}, {DefaultDisplayInterval})
    \/ OneShot(MaxShots)

SpecShot == Init /\ [][NextShot]_vars

(***************************************************************************)
(* SpecDisplay: the pipeline while the display size is being changed.      *)
(***************************************************************************)
NextDisplay ==
    \/ Producer(DisplayFrames, DisplayFails, MaxRaises)
    \/ Lifecycle({DefaultInterval}, {DefaultDisplayInterval})
    \/ \E size \in DisplaySizes : set_display_size(size)

SpecDisplay == Init /\ [][NextDisplay]_vars

(***************************************************************************)
(* SpecGui: the pipeline driven by the interface, which listens to its     *)
(* error events; the adb executable can disappear.                         *)
(***************************************************************************)
NextGui ==
    \/ Producer(GuiFrames, GuiFails, MaxRaises)
    \/ consume_frame
    \/ stop_capture_call
    \/ cleanup
    \/ stop_wait_finished
    \/ stop_wait_timeout
    \/ setup_connections
    \/ \E connected \in BOOLEAN : try_initial_connection(connected)
    \/ deliver_capture_error
    \/ adb_removed

SpecGui == Init /\ [][NextGui]_vars

(***************************************************************************)
(* SpecStuck: the pipeline with a device bridge whose calls can hang.      *)
(***************************************************************************)
NextStuck ==
    \/ Producer(StuckFrames, StuckFails, MaxRaises)
    \/ Lifecycle({DefaultInterval}, {DefaultDisplayInterval})
    \/ \E i \in DOMAIN BridgeCalls : bridge_hangs(i)

SpecStuck == Init /\ [][NextStuck]_vars

(***************************************************************************)
(* SpecQueue: the frame queue over more frames than its maxsize.           *)
(***************************************************************************)
NextQueue ==
    \/ Producer(QueueFrames, QueueFails, MaxRaises)
    \/ Lifecycle({DefaultInterval}, {DefaultDisplayInterval})

SpecQueue == Init /\ [][NextQueue]_vars

(***************************************************************************)
(* SpecStop: stopping the pipeline while the bridge can hang and the       *)
(* capture interval can exceed the wait of stop_capture. The producer      *)
(* thread keeps being scheduled, and QThread.wait returns when the thread  *)
(* has finished or its timeout is over.                                    *)
(***************************************************************************)
NextStop ==
    \/ Producer(StopFrames, StopFails, MaxRaises)
    \/ Lifecycle({DefaultInterval, 50}, {DefaultDisplayInterval})
    \/ \E i \in DOMAIN BridgeCalls : bridge_hangs(i)

SpecStop ==
    /\ Init
    /\ [][NextStop]_vars
    /\ WF_vars(Producer(StopFrames, StopFails, MaxRaises))
    /\ WF_vars(stop_wait_finished)
    /\ WF_vars(stop_wait_timeout)

(***************************************************************************)
(* SpecRaise: the pipeline with exceptions raised inside the inner try of  *)
(* run() as well as in _capture_and_process.                               *)
(***************************************************************************)
NextRaise ==
    \/ Producer(RaiseFrames, RaiseFails, MaxRaises)
    \/ inner_raises
    \/ Lifecycle({DefaultInterval}, {DefaultDisplayInterval})

SpecRaise == Init /\ [][NextRaise]_vars

(***************************************************************************)
(* SpecAuto: BaseAutomation, its caller and its run_loop thread.           *)
(***************************************************************************)
NextAuto ==
    \/ auto_runs < MaxRuns
          /\ \E config \in Configs, setup_ok \in BOOLEAN : start(config, setup_ok)
    \/ ext_stops < MaxStops /\ stop
    \/ pause
    \/ resume
    \/ run_loop_begin
    \/ loop_while
    \/ loop_paused
    \/ loop_invoke
    \/ \E result \in {"True", "False", "raise"} : loop_step(result)
    \/ loop_final
    \/ loop_stop

SpecAuto == Init /\ [][NextAuto]_vars

(***************************************************************************)
(* Properties                                                              *)
(***************************************************************************)

\* C1: in every reachable state, whatever the interleaving of the producer's
\* evict loop and put with the consumer's pop and whatever start_capture and
\* stop_capture calls were made, the frame queue holds at most 3 frames (and
\* so stays below the Queue's maxsize of 5).
C1_QueueAtMostThree ==
    /\ Len(queue) <= KeepFrames
    /\ Len(queue) < QueueMaxSize

\* the queue is at its limit after evictions, pops and a stop
C1_Witness ==
    /\ Len(queue) = KeepFrames
    /\ frames_captured > KeepFrames
    /\ display_count > 0
    /\ stop_returned

\* C2: after more than 3 pushes with no consumer pop in between, each
\* completed push leaves exactly 3 frames in the queue: the 3 most recently
\* pushed ones, oldest first.
C2_KeepsThreeNewest ==
    (pushes_since_pop > KeepFrames /\ pending = 0)
        => queue = << frames_captured - 2, frames_captured - 1,
                      frames_captured >>

\* the fifth push in a row without a pop has completed
C2_Witness ==
    /\ pushes_since_pop = KeepFrames + 2
    /\ ppc = "count"

\* C3: once stop_capture has returned, and until the next start_capture, the
\* queue does not grow (no frame is pushed).
C3_NoPushAfterStop ==
    [][(stop_returned /\ stop_returned') => Len(queue') <= Len(queue)]_vars

\* C4: start_capture on a pipeline that is already running changes nothing:
\* not the capture interval, the consumer's timer, the counters, the queue
\* or the producer thread.
C4_StartWhileRunningIsNoOp ==
    [][\A ci \in CaptureIntervals, di \in DisplayIntervals :
          (running /\ timer_active /\ start_capture(ci, di))
              => UNCHANGED << capture_interval, timer_active, timer_interval,
                              capture_count, error_count, display_count,
                              queue, ppc, running >>]_vars

\* C5: every failed capture attempt increments error_count by one, so that
\* three failures followed by a success leave error_count = 3 and
\* capture_count = 1.
C5_FailuresCounted ==
    [][failed_attempts' = failed_attempts + 1
          => error_count' = error_count + 1]_vars

\* C6: any two consecutive forwarded capture_error events are at least
\* ERROR_REPORT_COOLDOWN seconds apart, whatever the number, kinds and rate
\* of the errors.
C6_ErrorEventsSpaced ==
    \A i \in 1..(Len(err_events) - 1) :
        err_events[i + 1] - err_events[i] >= ERROR_REPORT_COOLDOWN

\* a second error event was forwarded after failures in between were
\* suppressed
C6_Witness ==
    /\ Len(err_events) = 2
    /\ failed_attempts > 2

\* C7: on a fresh producer, when the first 3 capture failures fall within one
\* cooldown window, exactly one capture_error event has been forwarded: the
\* one of the first failure.
C7_OneEventForThreeFailures ==
    (failed_attempts = 3 /\ now - first_fail_time <= ERROR_REPORT_COOLDOWN)
        => err_events = << first_fail_time >>

\* three failures spread over several seconds of one window
C7_Witness ==
    /\ failed_attempts = 3
    /\ now - first_fail_time = ERROR_REPORT_COOLDOWN
    /\ ppc = "sleep"

\* the positions of the producer thread inside the while loop of run()
LoopPositions ==
    {"check", "bridge", "evict", "get", "put", "count", "sleep", "backoff"}

\* C8: the producer loop is left only from its while test, with the running
\* flag cleared; after a failure of any kind the thread stays in the loop
\* (it sleeps and tests the flag again).
C8_LoopEndsOnlyOnStop ==
    [][(ppc \in LoopPositions /\ ppc' \notin LoopPositions)
          => (ppc = "check" /\ ~running /\ ppc' = "exiting")]_vars

\* after handled failures and an escaped exception the loop is in a further
\* iteration
C8_Witness ==
    /\ failed_attempts > 0
    /\ raised > 0
    /\ error_count > 0
    /\ running
    /\ ppc = "bridge"

\* C9: save_screenshot never raises to its caller; a failure makes it return
\* False after delivering an error event.
C9_OneShotNeverRaises ==
    /\ shot_result # "raised"
    /\ shot_result = "False" => shot_events # {}

\* C10: the steps of the one-shot capture leave the queue, the counters, the
\* throttle stamp, the running flag, the producer thread and the consumer
\* untouched.
C10_OneShotIndependent ==
    [][(mpc # mpc' /\ "shot" \in {mpc, mpc'})
          => UNCHANGED << queue, capture_count, error_count, last_error_time,
                          running, ppc, pending, capture_interval,
                          timer_active, timer_interval, display_count >>]_vars

\* a one-shot capture began and ended while the producer was inside its
\* bridge call, frames being queued
C10_Witness ==
    /\ shot_result = "True"
    /\ shot_began_at = "bridge"
    /\ ppc = "bridge"
    /\ mpc = "idle"
    /\ queue # << >>

\* C11: once set_display_size(s) has changed the display size, every frame a
\* consumer tick forwards is the popped frame's pre-scaled variant of size s,
\* or the original scaled on demand to s when the frame has no such variant.
C11_DisplayFollowsSize ==
    [][(current_display_size # DefaultDisplaySize
          /\ display_count' > display_count)
          => last_display' = Pixmap(current_display_size,
                                    current_display_size \in CommonSizes)]_vars

\* C12: the frames forwarded by display_update are in strictly increasing
\* capture order (so none is forwarded twice), whatever the interleaving of
\* pushes, evictions and pops.
C12_DisplayInCaptureOrder ==
    [][display_count' # display_count => last_displayed' > last_displayed]_vars

\* frames were displayed after a restart, with evicted frames skipped
C12_Witness ==
    /\ display_count >= 2
    /\ last_displayed > display_count + 1
    /\ stop_returned

\* C13: a consumer tick that finds the queue empty returns at once (the
\* interface thread is idle again), emits no display_update and no error
\* event, and leaves display_count and all other state as it was.
C13_EmptyTickChangesNothing ==
    [][(~empty_tick /\ empty_tick')
          => /\ mpc = "idle" /\ mpc' = "idle"
             /\ UNCHANGED << producerVars, consumerVars, now, producerHist,
                             stop_returned, shotVars, current_display_size,
                             last_display, last_displayed, statusVars,
                             guiVars >>]_vars

\* a tick found the queue empty after frames had been displayed, the
\* producer still running
C13_Witness ==
    /\ empty_tick
    /\ display_count > 0
    /\ running
    /\ queue = << >>

\* C14: with the adb executable consistently missing while the pipeline
\* runs, once the producer has reported an error and the interface has
\* handled it, the device status indicator shows disconnected.
C14_MissingBridgeMarksDisconnected ==
    (missing_reported /\ gui_queue = << >>)
        => device_status = "disconnected"

\* C15: after stop_capture has returned (and with no start_capture since), a
\* producer thread that is still alive can always take a further step, even
\* with a stuck device: each adb call of an iteration ends by its timeout at
\* the latest, so the thread reaches its while test and finishes.
C15_StoppedProducerNotBlocked ==
    (stop_returned /\ isRunning) => ENABLED ProducerStep

\* C16: cleanup() and stop_capture() on a pipeline that was never started or
\* is already stopped emit no status_changed event and leave the running
\* flag, the counters and the queue unchanged; and a cleanup() step is a
\* stop_capture() step.
C16_StopWhenStoppedIsNoOp ==
    [][/\ ((stop_capture_call \/ cleanup) /\ ~running)
            => UNCHANGED << running, capture_count, error_count,
                            display_count, queue, last_status, status_flip >>
       /\ cleanup <=> stop_capture_call]_vars

\* stop_capture or cleanup has returned on a pipeline that was never started
C16_Witness ==
    /\ stop_returned
    /\ last_status = "none"
    /\ ~running
    /\ ppc = "idle"
    /\ frames_captured = 0

\* C17: capture_count, error_count and display_count never decrease, over
\* starts, stops, restarts, captures, failures and consumer ticks.
C17_CountersMonotonic ==
    [][/\ capture_count' >= capture_count
       /\ error_count' >= error_count
       /\ display_count' >= display_count]_vars

\* the pipeline has been stopped with all three counters above zero
C17_Witness ==
    /\ capture_count > 0
    /\ error_count > 0
    /\ display_count > 0
    /\ last_status = "stopped"
    /\ stop_returned
    /\ ppc = "idle"

\* C18: in every reachable state capture_interval is at least 0.1 s, whatever
\* arguments (zero and negative included) start_capture was called with.
C18_IntervalAtLeastMin ==
    capture_interval >= MinInterval

\* the pipeline runs after start_capture with a zero or negative interval
C18_Witness ==
    /\ capture_interval = MinInterval
    /\ running
    /\ capture_count > 0

\* C19: pause() changes the state only from RUNNING (to PAUSED, setting
\* paused) and resume() only from PAUSED (to RUNNING, clearing paused); in
\* any other state they leave state, running and paused unchanged.
C19_PauseResumeGuarded ==
    [][/\ pause => IF auto_state = "RUNNING"
                   THEN /\ auto_state' = "PAUSED"
                        /\ auto_paused'
                        /\ auto_running' = auto_running
                   ELSE UNCHANGED << auto_state, auto_running, auto_paused >>
       /\ resume => IF auto_state = "PAUSED"
                    THEN /\ auto_state' = "RUNNING"
                         /\ ~auto_paused'
                         /\ auto_running' = auto_running
                    ELSE UNCHANGED << auto_state, auto_running,
                                      auto_paused >>]_vars

\* pause() has just been called on an automation whose loop had failed
C19_Witness ==
    /\ last_call = << "pause", "ERROR" >>
    /\ auto_state = "ERROR"
    /\ lpc = "final"

\* C20: at the step that ends the run_loop of a run, the caller having
\* called stop() at most once during that run, the state is STOPPED and
\* cleanup() has been invoked exactly once for the run.
C20_StoppedWithOneCleanup ==
    [][(lpc # "done" /\ lpc' = "done" /\ ext_stops' <= 1)
          => (auto_state' = "STOPPED" /\ cleanup_calls' = 1)]_vars

\* C21: a step in which the producer evicts a frame (get_nowait returns a
\* frame) is taken with 3 frames in the queue, and leaves fewer than 3, so
\* that the evict loop ends after one eviction; under any interleaving with
\* the consumer's pops.
C21_EvictsOnlyWhenFull ==
    [][(ppc = "get" /\ ppc' = "evict")
          => (Len(queue) >= KeepFrames /\ Len(queue') < KeepFrames)]_vars

\* C22: every frame put into the queue is in exactly one place: still in the
\* queue, evicted by the producer, or popped by the consumer. The queue holds
\* no frame twice and none that was already popped, and its size is the
\* number of puts less the evictions and pops.
C22_FramesAccounted ==
    /\ puts_done = Len(queue) + evictions + display_count
    /\ \A i \in DOMAIN queue :
          /\ queue[i] \in (last_displayed + 1)..frames_captured
          /\ \A j \in DOMAIN queue : i < j => queue[i] < queue[j]

\* frames were evicted and popped, others are queued, all frames are put
C22_Witness ==
    /\ puts_done = QueueFrames
    /\ evictions > 0
    /\ display_count > 1
    /\ Len(queue) > 1

\* C23: whenever the producer reaches frame_queue.put, the queue holds fewer
\* than maxsize items: the put completes at once and never raises Full.
C23_PutNeverFull ==
    ppc = "put" => Len(queue) < QueueMaxSize

\* the producer is at put with its sixth frame, after evictions
C23_Witness ==
    /\ ppc = "put"
    /\ pending > QueueMaxSize
    /\ evictions > 0
    /\ Len(queue) = KeepFrames - 1

\* C24: stop_capture always returns: once it waits for the producer thread,
\* the wait ends, also when the producer is inside a bridge call that hangs
\* or in a sleep longer than the wait.
C24_StopReturns ==
    (mpc = "stop_wait") ~> (mpc = "idle" /\ stop_returned)

\* stop_capture has returned while the producer thread is still inside a
\* bridge call that never ends
C24_Witness ==
    /\ stop_returned
    /\ mpc = "idle"
    /\ isRunning
    /\ ppc = "bridge"
    /\ bridge_fault = "hang_devices"

C26_ForwardedAtCooldown ==
    [][(failed_attempts' = failed_attempts + 1
          /\ now - last_error_time >= ERROR_REPORT_COOLDOWN)
          => Len(err_events') = Len(err_events) + 1]_vars

\* C27: no error-event handler of the interface stops the capture loop:
\* the delivery of a forwarded error event leaves the producer running and
\* the consumer's timer active, so that capture goes on without a user
\* action and the next successful capture is pushed and displayed.
C27_ErrorHandlerKeepsCapturing ==
    [][deliver_capture_error
          => (running' = running /\ timer_active' = timer_active)]_vars

\* C28: every exception raised in an iteration of run() is counted once in
\* error_count and followed by the 1-second backoff, whether it comes out
\* of _capture_and_process or out of the put / frame_ready emit / counter
\* step.
C28_EveryExceptionCounted ==
    [][(iteration_raises \/ inner_raises)
          => (error_count' = error_count + 1 /\ ppc' = "backoff")]_vars

\* the positions of the producer thread inside one iteration of run(), from
\* the adb calls of _capture_and_process to the counter step
InIteration == {"bridge", "evict", "get", "put", "count"}

C30_VariantForDisplaySize ==
    [][frames_captured' = frames_captured + 1
          => (CommonSizes \cup {current_display_size})
                 \subseteq generate_scaled_versions]_vars

\* C31: the interface thread never performs a blocking device-bridge
\* invocation: it is never inside an adb subprocess call, whatever operation
\* (take screenshot, start, stop, error handling) was triggered on it.
C31_InterfaceNeverInBridge == mpc # "shot"

\* C32: at most one producer loop is executing at any time, for any
\* sequence of start_capture and stop_capture calls, a start issued after a
\* stop whose wait timed out included; the loop is the one whose position
\* ppc is.
C32_AtMostOneLoop ==
    /\ loops <= 1
    /\ loops = 0 <=> ppc = "idle"

\* start_capture was called after a stop whose wait had timed out, while
\* the thread, which had seen the cleared flag, was still running: no second
\* loop was launched
C32_Witness ==
    /\ running
    /\ ~stop_returned
    /\ mpc = "idle"
    /\ loops = 1
    /\ ppc = "exiting"
    /\ frames_captured > 0

\* C33: whenever the running flag is true and no start or stop call is in
\* progress, a producer loop is alive: the thread is at its while test, in
\* an iteration or in its sleep.
C33_RunningHasLoop ==
    (running /\ mpc = "idle") => ppc \notin {"idle", "exiting"}

\* C34: in every reachable state, and so in every get_statistics()
\* snapshot, the number of frames displayed does not exceed the number
\* counted as captured.
C34_DisplayedAtMostCaptured == display_count <= capture_count

\* C35: the producer's status_changed events alternate strictly between
\* "capturing" and "stopped", the first being "capturing", for any sequence
\* of start_capture and stop_capture calls: an event is emitted only when
\* the running flag changes, so that a repeated start or a repeated stop
\* emits none.
C35_StatusAlternates ==
    [][/\ status_flip' # status_flip
             => /\ last_status' \in {"capturing", "stopped"}
                /\ last_status' # last_status
                /\ last_status = "none" => last_status' = "capturing"
                /\ running' # running
       /\ status_flip' = status_flip => last_status' = last_status
       /\ last_status' = "capturing" <=> running']_vars

\* "capturing", "stopped" and "capturing" again have been emitted, the last
\* start having found the thread of the first still alive
C35_Witness ==
    /\ last_status = "capturing"
    /\ status_flip
    /\ running
    /\ ~stop_returned
    /\ ppc = "exiting"
    /\ frames_captured = 0

\* C36 as stated: a frame that was queued when the pipeline stopped stays
\* in the queue until it is delivered, so that after a later start_capture
\* the retained frames are the first frames delivered: the producer never
\* evicts one of them.
C36_RetainedDeliveredFirst ==
    [][evictions' = evictions + 1 => retained = 0]_vars

\* C36, amended: stop_capture and start_capture leave the frame queue as it
\* is; the retained frames stay at the head of the queue and leave it only
\* by a consumer tick or by the producer's eviction; a tick that finds one
\* delivers the oldest of them, ahead of every frame behind it.
C36_RetainedUntilTaken ==
    [][/\ (running' # running \/ timer_active' # timer_active
             \/ stop_returned' # stop_returned) => queue' = queue
       /\ retained' <= Len(queue')
       /\ (display_count' = display_count + 1 /\ retained > 0)
             => (last_displayed' = Head(queue) /\ retained' = retained - 1)
       /\ retained' < retained
             => (display_count' = display_count + 1
                 \/ evictions' = evictions + 1)]_vars

\* after a stop and a restart two retained frames are at the head of the
\* queue, the running producer has put a newer frame behind them, and no
\* frame has been evicted
C36_Witness ==
    /\ running
    /\ timer_active
    /\ retained = 2
    /\ Len(queue) = 3
    /\ evictions = 0
    /\ ppc = "count"
    /\ ~stop_returned

\* C37: in BaseAutomation, after any sequence of start (with succeeding or
\* failing setup), stop, pause and resume calls, the flags agree with the
\* state: PAUSED iff paused, RUNNING implies running and not paused, STOPPED
\* implies neither running nor paused.
C37_FlagsAgreeWithState ==
    /\ auto_state = "PAUSED" <=> auto_paused
    /\ auto_state = "RUNNING" => (auto_running /\ ~auto_paused)
    /\ auto_state = "STOPPED" => (~auto_running /\ ~auto_paused)

\* C38: start() called while the state is RUNNING returns False without
\* calling setup and without changing state, config, running or paused;
\* start() whose setup fails returns False and leaves the state ERROR
\* without setting running to true.
C38_StartGuardedAndFailsToError ==
    [][(\E config \in Configs, setup_ok \in BOOLEAN : start(config, setup_ok))
          => /\ auto_state = "RUNNING"
                   => /\ start_returned' = "False"
                      /\ ~setup_called'
                      /\ UNCHANGED << auto_state, auto_config, auto_running,
                                      auto_paused >>
             /\ (auto_state # "RUNNING" /\ start_returned' = "False")
                   => /\ setup_called'
                      /\ auto_state' = "ERROR"
                      /\ auto_running' = auto_running]_vars

\* start() was called with a config while the automation was running and
\* its loop executing a step: it returned False, setup was not called and
\* the config of the first start is still the only one
C38_Witness ==
    /\ start_returned = "False"
    /\ ~setup_called
    /\ auto_state = "RUNNING"
    /\ auto_running
    /\ auto_config = {"speed"}
    /\ lpc = "step"

\* C39: whenever run_loop returns, the state is STOPPED, running is false
\* and cleanup has been invoked; a step that returns False or raises ends
\* the loop, passing through ERROR; and execute_step is never invoked while
\* paused is true.
C39_LoopEndsStoppedAndHonoursPause ==
    [][/\ (lpc # "done" /\ lpc' = "done")
             => (auto_state' = "STOPPED" /\ ~auto_running'
                 /\ cleanup_calls' >= 1)
       /\ (\E result \in {"False", "raise"} : loop_step(result))
             => (auto_state' = "ERROR" /\ lpc' = "final")
       /\ loop_invoke => ~auto_paused]_vars

====
